---- MODULE Spec2Model ----
(***************************************************************************)
(* EduMentor AI (src/haidon.py): the SQLite store (DatabaseManager), the   *)
(* template content generator (ContentGenerator), the login page and the   *)
(* Streamlit script main(), one rerun of the script per user interaction.  *)
(*                                                                         *)
(* Text is kept as TLA+ strings built with \o the way the f-strings build  *)
(* them; the Vietnamese literals are written without diacritics.           *)
(***************************************************************************)
EXTENDS Integers, Sequences, FiniteSets, TLC

\* ---------------------------------------------------------------- bounds
\* Rows the lessons table may hold before the model stops saving.
MaxLessons == 2
\* Seconds the wall clock (CURRENT_TIMESTAMP, one-second resolution) may advance.
MaxClock == 1
\* Rows the student_progress table may hold before the model stops inserting.
MaxProgress == 1
\* Largest num_questions handed to generate_quiz_questions.
MaxQuestions == 3
\* Interpreter recursion limit (sys.getrecursionlimit(), 1000 by default in
\* CPython); any finite limit ends the recursion of line 163 the same way.
RecursionLimit == 3

\* Lower end of the "So cau hoi" slider, st.slider(..., 3, 20, 5).
SliderMin == 3

\* ---------------------------------------------------------------- inputs
\* Each specification draws the inputs of the interactions from small sets: the
\* login specification (Spec) is rich in accounts, the lesson specification
\* (SpecLessons) in lesson inputs, the call specification (SpecApi) adds direct
\* calls of the classes' methods.
Usernames == {"alice", "bob"}
Passwords == {"p1", "p2"}
OneUsername == {"alice"}
OnePassword == {"p1"}
\* The text typed as topic; "" is the empty text input (falsy in Python).
Topics == {"Pythagoras", "Newton"}
OneTopic == {"Pythagoras"}
\* Entries of the "Mon hoc" selectbox.
Subjects == {"Toan", "Ly"}
OneSubject == {"Toan"}
\* Entries of the "Cap do" selectbox.
GradeLevels == {"Tieu hoc", "Trung hoc co so"}
OneGradeLevel == {"Tieu hoc"}
\* Python's None, and an API key string.
None == "None"
ApiKeys == {None, "sk-test"}

VARIABLES
    db,          \* the SQLite file edumentor.db: tables, rows, sqlite_sequence
    clock,       \* the wall clock in seconds (CURRENT_TIMESTAMP)
    session,     \* st.session_state of the browser session: key -> value
    api_key,     \* ContentGenerator.api_key of a directly constructed generator
    ret,         \* what the last call or handler run returned or showed
    savedLog,    \* history: every save_lesson call, its arguments and returned id
    registered,  \* history: the <<username, password>> of every registration that succeeded, in order
    loginCred,   \* history: the credentials of this session's successful login
    probe        \* history: one earlier generate_lesson_outline call, its outcome and
                 \* the number of lessons stored when it was made

vars == <<db, clock, session, api_key, ret, savedLog, registered, loginCred, probe>>

\* ------------------------------------------------------------- the store
EntityTables == {"lessons", "student_progress", "generated_images"}

\* A database file that does not exist yet: sqlite3.connect creates it empty.
EmptyDb ==
    [ tables           |-> {},
      lessons          |-> <<>>,
      student_progress |-> <<>>,
      generated_images |-> <<>>,
      users            |-> <<>>,
      sqlite_sequence  |-> [lessons |-> 0, student_progress |-> 0, users |-> 0] ]

\* Variant: the lessons table is dropped and created again on every start.
init_database_recreates(d) ==
    [d EXCEPT !.tables = @ \cup EntityTables, !.lessons = <<>>]

\* CREATE TABLE IF NOT EXISTS for lessons, student_progress, generated_images.
init_database(d) ==
    [d EXCEPT !.tables = @ \cup EntityTables]

MaxOf(S) == CHOOSE x \in S : \A y \in S : y <= x

\* INTEGER PRIMARY KEY AUTOINCREMENT: one more than the largest rowid the table
\* ever held.
NextRowId(rows, seq) ==
    MaxOf({seq} \cup {rows[i].id : i \in 1..Len(rows)}) + 1

\* Variant: the outline column is left out of the INSERT.
save_lesson_dropsOutline(d, now, title, subject, content, outline) ==
    LET id == NextRowId(d.lessons, d.sqlite_sequence.lessons)
        row == [id |-> id, title |-> title, subject |-> subject,
                content |-> content, outline |-> "", created_at |-> now]
    IN  [ db |-> [d EXCEPT !.lessons = Append(@, row),
                           !.sqlite_sequence.lessons = id],
          lesson_id |-> id ]

\* INSERT INTO lessons (title, subject, content, outline); created_at takes its
\* default CURRENT_TIMESTAMP; returns cursor.lastrowid.
save_lesson(d, now, title, subject, content, outline) ==
    LET id == NextRowId(d.lessons, d.sqlite_sequence.lessons)
        row == [id |-> id, title |-> title, subject |-> subject,
                content |-> content, outline |-> outline, created_at |-> now]
    IN  [ db |-> [d EXCEPT !.lessons = Append(@, row),
                           !.sqlite_sequence.lessons = id],
          lesson_id |-> id ]

Permutations_(n) ==
    {p \in [1..n -> 1..n] : \A i, j \in 1..n : i # j => p[i] # p[j]}

\* SELECT * FROM lessons ORDER BY created_at DESC: the rows sorted on created_at
\* alone. SQL leaves the order of rows with equal keys open, so every order of
\* the ties is a possible result (SQLite's sorter returns them by ascending id).
get_lessons(d) ==
    LET n == Len(d.lessons)
    IN  { [i \in 1..n |-> d.lessons[p[i]]] : p \in
            { q \in Permutations_(n) :
                \A i, j \in 1..n :
                    i < j => d.lessons[q[i]].created_at >= d.lessons[q[j]].created_at } }

\* INSERT INTO student_progress (...); lesson_id is not checked (SQLite does not
\* enforce foreign keys unless the pragma is set).
save_progress(d, now, student_name, lesson_id, quiz_score, completion_status, study_time) ==
    LET id == NextRowId(d.student_progress, d.sqlite_sequence.student_progress)
        row == [id |-> id, student_name |-> student_name, lesson_id |-> lesson_id,
                quiz_score |-> quiz_score, completion_status |-> completion_status,
                study_time |-> study_time, created_at |-> now]
    IN  [d EXCEPT !.student_progress = Append(@, row),
                  !.sqlite_sequence.student_progress = id]

\* ---------------------------------------------------------- login_page
\* Variant: INSERT OR REPLACE, which replaces the account of the username.
register_user_overwrites(d, username, password) ==
    LET d1 == [d EXCEPT !.tables = @ \cup {"users"}]
        id == NextRowId(d1.users, d1.sqlite_sequence.users)
        row == [id |-> id, username |-> username, password |-> password]
        kept == SelectSeq(d1.users, LAMBDA r : r.username # username)
    IN  [ db |-> [d1 EXCEPT !.users = Append(kept, row),
                            !.sqlite_sequence.users = id],
          outcome |-> "Success" ]

\* The "Tao tai khoan" button: CREATE TABLE IF NOT EXISTS users (username TEXT
\* UNIQUE), then the INSERT; sqlite3.IntegrityError (the UNIQUE constraint) is
\* caught and shown as "Ten dang nhap da ton tai!".
register_user(d, username, password) ==
    LET d1 == [d EXCEPT !.tables = @ \cup {"users"}]
        id == NextRowId(d1.users, d1.sqlite_sequence.users)
        row == [id |-> id, username |-> username, password |-> password]
    IN  IF \E i \in 1..Len(d1.users) : d1.users[i].username = username
        THEN [db |-> d1, outcome |-> "DuplicateUsername"]
        ELSE [ db |-> [d1 EXCEPT !.users = Append(@, row),
                                 !.sqlite_sequence.users = id],
               outcome |-> "Success" ]

\* Variant: the query matches on the username alone.
authenticate_byNameOnly(d, username, password) ==
    IF "users" \notin d.tables
    THEN [status |-> "OperationalError", user |-> <<>>]
    ELSE LET hits == SelectSeq(d.users, LAMBDA r : r.username = username)
         IN  [ status |-> "ok",
               user |-> IF hits = <<>> THEN <<>> ELSE <<hits[1]>> ]

\* The "Dang nhap" button's query: SELECT * FROM users WHERE username=? AND
\* password=?, then fetchone(): <<row>> or <<>> (None). The statement raises
\* sqlite3.OperationalError (no such table: users) when the table is missing,
\* and nothing catches it.
authenticate(d, username, password) ==
    IF "users" \notin d.tables
    THEN [status |-> "OperationalError", user |-> <<>>]
    ELSE LET hits == SelectSeq(d.users,
                        LAMBDA r : r.username = username /\ r.password = password)
         IN  [ status |-> "ok",
               user |-> IF hits = <<>> THEN <<>> ELSE <<hits[1]>> ]

\* st.session_state[key] = value
SetKey(s, key, value) ==
    [k \in DOMAIN s \cup {key} |-> IF k = key THEN value ELSE s[k]]

\* Variant: the session is marked logged in whatever fetchone() returned.
login_session_always(s, user, username) ==
    SetKey(SetKey(s, "logged_in", TRUE), "username", username)

\* if user: session_state["logged_in"] = True; session_state["username"] = username
login_session(s, user, username) ==
    IF user # <<>>
    THEN SetKey(SetKey(s, "logged_in", TRUE), "username", username)
    ELSE s

\* main(): not ("logged_in" not in st.session_state or not st.session_state["logged_in"])
LoggedIn(s) ==
    "logged_in" \in DOMAIN s /\ s["logged_in"] = TRUE

\* ---------------------------------------------------- ContentGenerator
TemplateOutline ==
    << "1. Gioi thieu va muc tieu hoc tap",
       "2. Kien thuc co ban",
       "3. Vi du minh hoa",
       "4. Bai tap thuc hanh",
       "5. Tong ket va danh gia" >>

\* The outcome of a call that raised: no document.
NoDoc ==
    [ title |-> "", outline |-> <<>>, content |-> "", key_points |-> <<>>,
      estimated_time |-> "" ]

\* The fallback template of lines 132-148.
Template(topic, subject) ==
    [ title          |-> "Bai hoc ve " \o topic,
      outline        |-> TemplateOutline,
      content        |-> "Noi dung chi tiet ve " \o topic \o " trong mon " \o subject \o "...",
      key_points     |-> << "Khai niem co ban ve " \o topic,
                            "Ung dung thuc te cua " \o topic,
                            "Cac bai tap lien quan den " \o topic >>,
      estimated_time |-> "45 phut" ]

\* Variant: the title carries the number of lessons stored at the time.
generate_lesson_outline_stateful(key, topic, subject, grade_level, depth) ==
    [ status |-> "returned",
      doc    |-> [Template(topic, subject) EXCEPT
                     !.title = @ \o " #" \o ToString(Len(db.lessons))] ]

\* generate_lesson_outline called at call-stack depth `depth`: the template when
\* the key is falsy (None or ""), otherwise the call of line 163 to itself with
\* the same arguments, which ends in RecursionError at the recursion limit.
RECURSIVE generate_lesson_outline(_, _, _, _, _)
generate_lesson_outline(key, topic, subject, grade_level, depth) ==
    IF key = None \/ key = ""
    THEN [status |-> "returned", doc |-> Template(topic, subject)]
    ELSE IF depth >= RecursionLimit
         THEN [status |-> "RecursionError", doc |-> NoDoc]
         ELSE generate_lesson_outline(key, topic, subject, grade_level, depth + 1)

\* The body of the loop of lines 169-175 for one value of i.
QuizRecord(topic, i) ==
    [ question       |-> "Cau hoi " \o ToString(i + 1) \o " ve " \o topic \o "?",
      options        |-> <<"Dap an A", "Dap an B", "Dap an C", "Dap an D">>,
      correct_answer |-> 0,
      explanation    |-> "Giai thich cho cau " \o ToString(i + 1) ]

\* for i in range(num_questions): questions.append(...), from i on.
RECURSIVE QuizLoop(_, _, _, _)
QuizLoop(topic, num_questions, i, questions) ==
    IF i >= num_questions
    THEN questions
    ELSE QuizLoop(topic, num_questions, i + 1, Append(questions, QuizRecord(topic, i)))

\* Variant: the loop starts at 1, range(1, num_questions).
generate_quiz_questions_offByOne(topic, num_questions) ==
    QuizLoop(topic, num_questions, 1, <<>>)

\* questions = []; for i in range(num_questions): ...; return questions
generate_quiz_questions(topic, num_questions) ==
    QuizLoop(topic, num_questions, 0, <<>>)

\* json.dumps of a list of strings: ["a", "b"].
RECURSIVE JoinQuoted(_, _)
JoinQuoted(items, i) ==
    IF i > Len(items) THEN ""
    ELSE "\"" \o items[i] \o "\""
         \o (IF i < Len(items) THEN ", " ELSE "")
         \o JoinQuoted(items, i + 1)

json_dumps(items) == "[" \o JoinQuoted(items, 1) \o "]"

\* ------------------------------------------------------------ the state
NoRet == [op |-> "none", args |-> <<>>, status |-> "", val |-> <<>>]
NoProbe == [args |-> <<>>, status |-> "", doc |-> NoDoc, rows |-> 0]
EmptySession == [k \in {} |-> TRUE]

\* The database file does not exist, the browser session is new, the generator
\* is ContentGenerator() (api_key None).
Init ==
    /\ db = EmptyDb
    /\ clock = 0
    /\ session = EmptySession
    /\ api_key = None
    /\ ret = NoRet
    /\ savedLog = <<>>
    /\ registered = <<>>
    /\ loginCred = <<>>
    /\ probe = NoProbe

\* One second passes.
Tick ==
    /\ clock < MaxClock
    /\ clock' = clock + 1
    /\ UNCHANGED <<db, session, api_key, ret, savedLog, registered, loginCred, probe>>

\* The browser opens a new session: st.session_state starts without a key, and
\* the script runs once (the login page is shown).
NewSession ==
    /\ db' = init_database(db)
    /\ session' = EmptySession
    /\ ret' = NoRet
    /\ loginCred' = <<>>
    /\ UNCHANGED <<clock, api_key, savedLog, registered, probe>>

\* A call of generate_lesson_outline may be the one the history keeps.
KeepProbe(args, out) ==
    \/ UNCHANGED probe
    \/ probe' = [args |-> args, status |-> out.status, doc |-> out.doc,
                 rows |-> Len(db.lessons)]

\* ------------------------------------- main(): a rerun of the script
\* Every rerun constructs DatabaseManager(), which runs init_database.

\* Login page, choice "Dang ky", button "Tao tai khoan".
RegisterClick(username, password) ==
    /\ ~LoggedIn(session)
    /\ LET r == register_user(init_database(db), username, password)
       IN  /\ db' = r.db
           /\ ret' = [op |-> "register_user", args |-> <<username, password>>,
                      status |-> r.outcome, val |-> <<>>]
           /\ registered' = IF r.outcome = "Success"
                            THEN Append(registered, <<username, password>>)
                            ELSE registered
    /\ UNCHANGED <<clock, session, api_key, savedLog, loginCred, probe>>

\* Login page, choice "Dang nhap", button "Dang nhap".
LoginClick(username, password) ==
    /\ ~LoggedIn(session)
    /\ LET d0 == init_database(db)
           a  == authenticate(d0, username, password)
       IN  /\ db' = d0
           /\ IF a.status = "OperationalError"
              THEN /\ ret' = [op |-> "authenticate", args |-> <<username, password>>,
                              status |-> "OperationalError", val |-> <<>>]
                   /\ UNCHANGED <<session, loginCred>>
              ELSE /\ session' = login_session(session, a.user, username)
                   /\ ret' = [op |-> "authenticate", args |-> <<username, password>>,
                              status |-> IF a.user # <<>> THEN "LoginOk" ELSE "LoginFailed",
                              val |-> a.user]
                   /\ loginCred' = IF LoggedIn(session')
                                   THEN <<username, password>>
                                   ELSE loginCred
    /\ UNCHANGED <<clock, api_key, savedLog, registered, probe>>

\* Page "Tao bai giang", button "Tao Dan Y": content_gen is ContentGenerator(),
\* so the key is None; nothing is generated for an empty topic.
GenerateClick(topic, subject, grade_level) ==
    /\ LoggedIn(session)
    /\ db' = init_database(db)
    /\ IF topic # ""
       THEN LET out == generate_lesson_outline(None, topic, subject, grade_level, 0)
            IN  /\ ret' = [op |-> "generate_lesson_outline",
                           args |-> <<None, topic, subject, grade_level>>,
                           status |-> out.status, val |-> out.doc]
                /\ session' = IF out.status = "returned"
                              THEN SetKey(session, "current_lesson", out.doc)
                              ELSE session
                /\ KeepProbe(<<None, topic, subject, grade_level>>, out)
       ELSE /\ ret' = [op |-> "generate_lesson_outline",
                       args |-> <<None, topic, subject, grade_level>>,
                       status |-> "skipped", val |-> NoDoc]
            /\ UNCHANGED <<session, probe>>
    /\ UNCHANGED <<clock, api_key, savedLog, registered, loginCred>>

\* Page "Tao bai giang", button "Luu Bai Hoc", shown once a lesson was generated;
\* the subject saved is the selectbox's value in this rerun.
SaveLessonClick(subject) ==
    /\ LoggedIn(session)
    /\ "current_lesson" \in DOMAIN session
    /\ Len(db.lessons) < MaxLessons
    /\ LET lesson  == session["current_lesson"]
           outline == json_dumps(lesson.outline)
           r == save_lesson(init_database(db), clock, lesson.title, subject,
                            lesson.content, outline)
       IN  /\ db' = r.db
           /\ ret' = [op |-> "save_lesson",
                      args |-> <<lesson.title, subject, lesson.content, outline>>,
                      status |-> "ok", val |-> r.lesson_id]
           /\ savedLog' = Append(savedLog,
                             [id |-> r.lesson_id, title |-> lesson.title,
                              subject |-> subject, content |-> lesson.content,
                              outline |-> outline])
    /\ UNCHANGED <<clock, session, api_key, registered, loginCred, probe>>

Buttons == {"none", "edit", "quiz", "delete"}

\* Page "Quan ly bai hoc": get_lessons and the three buttons of each lesson, none
\* of which has a handler; `button` is the one clicked, of any lesson shown
\* ("none": a plain rerun of the page). The lesson's id is only the widget key.
ManageLessons(button) ==
    /\ LoggedIn(session)
    /\ button # "none" => Len(db.lessons) > 0
    /\ db' = init_database(db)
    /\ \E lessons \in get_lessons(db') :
          ret' = [op |-> "get_lessons", args |-> <<>>,
                  status |-> "ok", val |-> lessons]
    /\ UNCHANGED <<clock, session, api_key, savedLog, registered, loginCred, probe>>

\* Page "Tao cau hoi", button "Tao Cau Hoi"; nothing for an empty topic.
QuizClick(topic, num_questions) ==
    /\ LoggedIn(session)
    /\ db' = init_database(db)
    /\ IF topic # ""
       THEN LET questions == generate_quiz_questions(topic, num_questions)
            IN  /\ ret' = [op |-> "click_quiz", args |-> <<topic, num_questions>>,
                           status |-> "ok", val |-> questions]
                /\ session' = SetKey(session, "quiz_questions", questions)
       ELSE /\ ret' = [op |-> "click_quiz", args |-> <<topic, num_questions>>,
                       status |-> "skipped", val |-> <<>>]
            /\ UNCHANGED session
    /\ UNCHANGED <<clock, api_key, savedLog, registered, loginCred, probe>>

\* The interactions of the application with their inputs drawn from the sets
\* given; the topic may also be left empty. N: the values of the slider.
AppNext(U, P, T, S, G, N) ==
    \/ Tick
    \/ NewSession
    \/ \E u \in U, p \in P : RegisterClick(u, p)
    \/ \E u \in U, p \in P : LoginClick(u, p)
    \/ \E t \in T \cup {""}, s \in S, g \in G : GenerateClick(t, s, g)
    \/ \E s \in S : SaveLessonClick(s)
    \/ \E b \in Buttons : ManageLessons(b)
    \/ \E t \in T \cup {""}, n \in N : QuizClick(t, n)

Next == AppNext(Usernames, Passwords, OneTopic, OneSubject, OneGradeLevel, {SliderMin})

Spec == Init /\ [][Next]_vars

NextLessons == AppNext(OneUsername, OnePassword, Topics, OneSubject, GradeLevels, {SliderMin})

SpecLessons == Init /\ [][NextLessons]_vars

\* --------------------------- direct calls of the classes' methods
\* DatabaseManager(): __init__ runs init_database.
CallInitDatabase ==
    /\ db' = init_database(db)
    /\ ret' = [op |-> "init_database", args |-> <<>>, status |-> "ok", val |-> <<>>]
    /\ UNCHANGED <<clock, session, api_key, savedLog, registered, loginCred, probe>>

\* DatabaseManager().save_lesson(title, subject, content, outline)
CallSaveLesson(title, subject, content, outline) ==
    /\ Len(db.lessons) < MaxLessons
    /\ LET r == save_lesson(init_database(db), clock, title, subject, content, outline)
       IN  /\ db' = r.db
           /\ ret' = [op |-> "save_lesson", args |-> <<title, subject, content, outline>>,
                      status |-> "ok", val |-> r.lesson_id]
           /\ savedLog' = Append(savedLog,
                             [id |-> r.lesson_id, title |-> title, subject |-> subject,
                              content |-> content, outline |-> outline])
    /\ UNCHANGED <<clock, session, api_key, registered, loginCred, probe>>

\* DatabaseManager().get_lessons()
CallGetLessons ==
    /\ db' = init_database(db)
    /\ \E lessons \in get_lessons(db') :
          ret' = [op |-> "get_lessons", args |-> <<>>, status |-> "ok", val |-> lessons]
    /\ UNCHANGED <<clock, session, api_key, savedLog, registered, loginCred, probe>>

\* DatabaseManager().save_progress(...), which main() never calls.
CallSaveProgress(student_name, lesson_id, quiz_score, completion_status, study_time) ==
    /\ Len(db.student_progress) < MaxProgress
    /\ db' = save_progress(init_database(db), clock, student_name, lesson_id,
                           quiz_score, completion_status, study_time)
    /\ ret' = [op |-> "save_progress",
               args |-> <<student_name, lesson_id, quiz_score, completion_status, study_time>>,
               status |-> "ok", val |-> <<>>]
    /\ UNCHANGED <<clock, session, api_key, savedLog, registered, loginCred, probe>>

\* ContentGenerator(api_key=key)
NewGenerator(key) ==
    /\ api_key' = key
    /\ ret' = [op |-> "ContentGenerator", args |-> <<key>>, status |-> "ok", val |-> <<>>]
    /\ UNCHANGED <<db, clock, session, savedLog, registered, loginCred, probe>>

\* generate_lesson_outline(topic, subject, grade_level) on that generator.
CallGenerateOutline(topic, subject, grade_level) ==
    /\ LET out == generate_lesson_outline(api_key, topic, subject, grade_level, 0)
       IN  /\ ret' = [op |-> "generate_lesson_outline",
                      args |-> <<api_key, topic, subject, grade_level>>,
                      status |-> out.status, val |-> out.doc]
           /\ KeepProbe(<<api_key, topic, subject, grade_level>>, out)
    /\ UNCHANGED <<db, clock, session, api_key, savedLog, registered, loginCred>>

\* generate_quiz_questions(topic, num_questions) on that generator.
CallGenerateQuiz(topic, num_questions) ==
    /\ ret' = [op |-> "generate_quiz_questions", args |-> <<topic, num_questions>>,
               status |-> "ok", val |-> generate_quiz_questions(topic, num_questions)]
    /\ UNCHANGED <<db, clock, session, api_key, savedLog, registered, loginCred, probe>>

\* Direct calls of DatabaseManager.
StoreCalls(T, S) ==
    \/ CallInitDatabase
    \/ \E t \in T, s \in S, o \in {json_dumps(TemplateOutline), json_dumps(<<>>)} :
          CallSaveLesson(Template(t, s).title, s, Template(t, s).content, o)
    \/ CallGetLessons
    \/ CallSaveProgress("An", 1, 80, "completed", 30)

\* Direct calls of ContentGenerator.
GeneratorCalls(T, S, G) ==
    \/ \E key \in ApiKeys : NewGenerator(key)
    \/ \E t \in T \cup {""}, s \in S, g \in G : CallGenerateOutline(t, s, g)
    \/ \E t \in T \cup {""}, n \in 0..MaxQuestions : CallGenerateQuiz(t, n)

\* The application, and DatabaseManager called directly on the same file.
NextApi ==
    \/ AppNext(OneUsername, OnePassword, OneTopic, OneSubject, OneGradeLevel, {SliderMin})
    \/ StoreCalls(OneTopic, OneSubject)

SpecApi == Init /\ [][NextApi]_vars

\* A generator constructed with or without a key, and its two methods called.
NextGen == GeneratorCalls(Topics, Subjects, GradeLevels)

SpecGen == Init /\ [][NextGen]_vars

\* ------------------------------------------------------------ claims

\* C1: every save_lesson call returned an id no earlier call returned, and a
\* get_lessons result holds, for each call, exactly one lesson with the id the
\* call returned, whose title, subject, content and outline are the call's
\* arguments.
C1_SavedLessonListed ==
    /\ \A i, j \in 1..Len(savedLog) : i # j => savedLog[i].id # savedLog[j].id
    /\ ret.op = "get_lessons" =>
          \A k \in 1..Len(savedLog) :
             /\ Cardinality({i \in 1..Len(ret.val) : ret.val[i].id = savedLog[k].id}) = 1
             /\ \A i \in 1..Len(ret.val) :
                   ret.val[i].id = savedLog[k].id =>
                      /\ ret.val[i].title = savedLog[k].title
                      /\ ret.val[i].subject = savedLog[k].subject
                      /\ ret.val[i].content = savedLog[k].content
                      /\ ret.val[i].outline = savedLog[k].outline

C1_Witness ==
    /\ ret.op = "get_lessons"
    /\ Len(savedLog) = 2
    /\ Len(ret.val) = 2
    /\ savedLog[1].title # savedLog[2].title

\* C2 (as claimed): in a get_lessons result a lesson saved later (the larger id)
\* comes before every lesson saved earlier, also when both were saved within the
\* same second.
C2_LaterSavedFirst ==
    ret.op = "get_lessons" =>
       \A i, j \in 1..Len(ret.val) : i < j => ret.val[i].id > ret.val[j].id

\* C3: a registration for a username that already has an account never
\* succeeds: it ends in DuplicateUsername, and the users table keeps exactly the
\* accounts of the registrations that succeeded, one per username, each with the
\* password it was registered with.
C3_DuplicateRejected ==
    /\ \A i, j \in 1..Len(registered) : i # j => registered[i][1] # registered[j][1]
    /\ Len(db.users) = Len(registered)
    /\ \A i \in 1..Len(registered) :
          /\ db.users[i].username = registered[i][1]
          /\ db.users[i].password = registered[i][2]
    /\ ret.op = "register_user" =>
          /\ ret.status \in {"Success", "DuplicateUsername"}
          /\ ret.status = "Success" => registered[Len(registered)] = ret.args
          /\ ret.status = "DuplicateUsername" =>
                \E i \in 1..Len(registered) : registered[i][1] = ret.args[1]

C3_Witness ==
    /\ ret.op = "register_user"
    /\ ret.status = "DuplicateUsername"
    /\ \E i \in 1..Len(registered) :
          registered[i][1] = ret.args[1] /\ registered[i][2] # ret.args[2]

\* C4: a login for a registered username succeeds exactly when the password is
\* the one registered, and fails otherwise; a login succeeds only for a
\* registered (username, password) pair, whose account it returns.
C4_LoginMatchesRegistration ==
    ret.op = "authenticate" =>
       /\ \A i \in 1..Len(registered) :
             registered[i][1] = ret.args[1] =>
                /\ ret.status \in {"LoginOk", "LoginFailed"}
                /\ ret.status = "LoginOk" <=> registered[i][2] = ret.args[2]
       /\ ret.status = "LoginOk" =>
             /\ \E i \in 1..Len(registered) : registered[i] = ret.args
             /\ Len(ret.val) = 1
             /\ ret.val[1].username = ret.args[1]
             /\ ret.val[1].password = ret.args[2]

C4_Witness ==
    /\ ret.op = "authenticate"
    /\ ret.status = "LoginOk"
    /\ Len(registered) = 2
    /\ Len(db.lessons) >= 1

\* C5 (as claimed): whenever a login is attempted the users table exists, and
\* the attempt ends in an account or in a failed login, never in an error.
C5_LoginNeverRaises ==
    ret.op = "authenticate" =>
       /\ "users" \in db.tables
       /\ ret.status \in {"LoginOk", "LoginFailed"}

\* C6 (as claimed): on a generator with an API key, generate_lesson_outline
\* returns, and returns the document the generator without a key returns for the
\* same topic, subject and grade level.
C6_KeyFallsBackToTemplate ==
    (ret.op = "generate_lesson_outline" /\ ret.args[1] # None) =>
       /\ ret.status = "returned"
       /\ ret.val = generate_lesson_outline(None, ret.args[2], ret.args[3], ret.args[4], 0).doc

\* C7: generate_quiz_questions(topic, n), n >= 0, returns n records, the i-th
\* being question i about topic with the four options, correct answer 0 and
\* the explanation for question i.
C7_QuizHasNRecords ==
    ret.op = "generate_quiz_questions" =>
       /\ Len(ret.val) = ret.args[2]
       /\ \A i \in 1..ret.args[2] :
             ret.val[i] =
                [ question       |-> "Cau hoi " \o ToString(i) \o " ve " \o ret.args[1] \o "?",
                  options        |-> <<"Dap an A", "Dap an B", "Dap an C", "Dap an D">>,
                  correct_answer |-> 0,
                  explanation    |-> "Giai thich cho cau " \o ToString(i) ]

C7_Witness ==
    /\ ret.op = "generate_quiz_questions"
    /\ ret.args[2] = 0
    /\ ret.val = <<>>

\* C8, determinism: a generate_lesson_outline call returns the document an
\* earlier call with the same arguments returned.
C8_SameDocument ==
    (ret.op = "generate_lesson_outline" /\ ret.status = "returned"
        /\ probe.args = ret.args) =>
       /\ probe.status = "returned"
       /\ probe.doc = ret.val

\* C8, no side effect: the step of a generate_lesson_outline call leaves the
\* store as it is, and of the session state changes nothing but current_lesson,
\* which the button's handler sets to the document returned.
C8_NoSideEffect ==
    (ret'.op = "generate_lesson_outline" /\ ret'.status = "returned") =>
       /\ db' = db
       /\ DOMAIN session' = DOMAIN session \cup {"current_lesson"}
       /\ \A k \in DOMAIN session : k # "current_lesson" => session'[k] = session[k]
       /\ session'["current_lesson"] = ret'.val

IsPrefix(a, b) ==
    Len(a) <= Len(b) /\ \A i \in 1..Len(a) : a[i] = b[i]

\* One step keeps every table and every row, and adds at most one row, to the
\* table of the operation that ran.
InsertOnlyStep ==
    /\ db.tables \subseteq db'.tables
    /\ IsPrefix(db.lessons, db'.lessons)
    /\ IsPrefix(db.student_progress, db'.student_progress)
    /\ IsPrefix(db.users, db'.users)
    /\ db'.generated_images = db.generated_images
    /\ (Len(db'.lessons) - Len(db.lessons))
         + (Len(db'.student_progress) - Len(db.student_progress))
         + (Len(db'.users) - Len(db.users)) <= 1
    /\ Len(db'.lessons) > Len(db.lessons) => ret'.op = "save_lesson"
    /\ Len(db'.student_progress) > Len(db.student_progress) => ret'.op = "save_progress"
    /\ Len(db'.users) > Len(db.users) => ret'.op = "register_user"

\* C9: the store is insert-only: no step removes or changes a row, and each
\* operation adds at most one row, to its own table.
C9_InsertOnly == [][InsertOnlyStep]_vars

C9_Witness ==
    /\ ret.op = "get_lessons"
    /\ Len(db.lessons) >= 1
    /\ Len(db.student_progress) >= 1
    /\ Len(db.users) >= 1

PageOps == {"generate_lesson_outline", "save_lesson", "get_lessons", "click_quiz"}

\* C10: the session is logged in only after a login with the credentials of a
\* stored account, whose username the session holds; a page action ran only in
\* a logged-in session; after a registration or a failed login the session is
\* (still) not logged in.
C10_LoginGating ==
    /\ LoggedIn(session) =>
          /\ "username" \in DOMAIN session
          /\ loginCred # <<>>
          /\ session["username"] = loginCred[1]
          /\ \E i \in 1..Len(db.users) :
                /\ db.users[i].username = loginCred[1]
                /\ db.users[i].password = loginCred[2]
    /\ ret.op \in PageOps => LoggedIn(session)
    /\ ( \/ ret.op = "register_user"
         \/ (ret.op = "authenticate" /\ ret.status # "LoginOk") ) => ~LoggedIn(session)

C10_Witness ==
    /\ LoggedIn(session)
    /\ ret.op = "save_lesson"
    /\ session["username"] = "bob"
====
